---- MODULE Spec2Model ----
(***************************************************************************)
(* Model of habits-tracker: the completion log (data/history.json), the    *)
(* log writer mark_habits_completed and the recurrence evaluator           *)
(* compute_habit_status of src/habits_tracker/tracker.py, with the         *)
(* frequency validation of src/habits_tracker/habits.py.                   *)
(*                                                                         *)
(* A datetime.date is modelled by its proleptic Gregorian ordinal, an ISO  *)
(* date string "YYYY-MM-DD" by the triple <<year, month, day>>, and any    *)
(* other Python str by the sequence of its characters.                     *)
(***************************************************************************)
EXTENDS Integers, Sequences, FiniteSets, TLC

\* ------------------------------------------------------------------ bounds
\* Longest completion log read from history.json by the evaluator runs.
MaxLog == 2
\* Number of consecutive calendar days, starting at FirstDate, that log
\* records and target dates are drawn from.
NumDays == 4
\* Longest habit id list handed to mark_habits_completed.
MaxIds == 2
\* Longest completion log the mark runs may write.
MaxHistory == 3
\* Longest habits list of habits.yaml.
MaxHabits == 2
\* Longest completion log the export runs read.
MaxExportLog == 1
\* characters after "weekly:" in a frequency string
MaxTail == 2
\* Longest completion log the mark command starts from.
MaxMarkLog == 1

\* ------------------------------------------------------- datetime.date
IsLeap(year) == year % 4 = 0 /\ (year % 100 # 0 \/ year % 400 = 0)

DaysInMonth(year, month) ==
    IF month = 2 THEN (IF IsLeap(year) THEN 29 ELSE 28)
    ELSE IF month \in {4, 6, 9, 11} THEN 30 ELSE 31

DaysBeforeYear(year) ==
    LET y == year - 1 IN y * 365 + y \div 4 - y \div 100 + y \div 400

\* The days of a common year before the first of each month.
DaysBeforeMonthTable == <<0, 31, 59, 90, 120, 151, 181, 212, 243, 273, 304, 334>>

DaysBeforeMonth(year, month) ==
    DaysBeforeMonthTable[month] + (IF month > 2 /\ IsLeap(year) THEN 1 ELSE 0)

\* date(year, month, day).toordinal()
ymd2ord(year, month, day) ==
    DaysBeforeYear(year) + DaysBeforeMonth(year, month) + day

\* Sunday 2025-11-30: the window crosses a Sunday/Monday boundary and the
\* November/December boundary.
FirstDate == ymd2ord(2025, 11, 30)

Dates == FirstDate .. (FirstDate + NumDays - 1)

\* date.fromisoformat(s) for s = "YYYY-MM-DD"
fromisoformat(s) == ymd2ord(s[1], s[2], s[3])

\* The calendar around the window: every day a call can name, a week either side.
CalendarDays == (FirstDate - 7) .. (FirstDate + NumDays + 7)

CalendarStrings ==
    {s \in {2025, 2026} \X (1 .. 12) \X (1 .. 31) : s[3] <= DaysInMonth(s[1], s[2])}

IsoformatOf ==
    [d \in CalendarDays |-> CHOOSE s \in CalendarStrings : fromisoformat(s) = d]

\* d.isoformat(): the "YYYY-MM-DD" string of the date with ordinal d
isoformat(d) == IsoformatOf[d]

\* d.weekday(): 0 for Monday ... 6 for Sunday
weekday(d) == (d + 6) % 7

DateStrings == {isoformat(d) : d \in Dates}

\* ------------------------------------------------------------ Python str
\* The frequency strings the model draws from, as character sequences.
daily == <<"d", "a", "i", "l", "y">>
every_two_days ==
    <<"e", "v", "e", "r", "y", "_", "t", "w", "o", "_", "d", "a", "y", "s">>
weekly_prefix == <<"w", "e", "e", "k", "l", "y", ":">>
monthly == <<"m", "o", "n", "t", "h", "l", "y">>
weekly_no_colon == <<"w", "e", "e", "k", "l", "y">>

Weekly(tail) == weekly_prefix \o tail

ValidFrequencies ==
    {daily, every_two_days} \cup {Weekly(<<c>>) : c \in {"1", "2", "3", "6"}}

MalformedFrequencies ==
    { <<>>, monthly, weekly_no_colon,
      Weekly(<<>>), Weekly(<<"0">>), Weekly(<<"7">>), Weekly(<<"-", "1">>),
      Weekly(<<"a", "b", "c">>) }

Frequencies == ValidFrequencies \cup MalformedFrequencies

\* s.startswith(prefix)
startswith(s, prefix) ==
    /\ Len(s) >= Len(prefix)
    /\ SubSeq(s, 1, Len(prefix)) = prefix

\* s.split(sep) for a one-character separator: the list of the pieces
RECURSIVE split(_, _)
split(s, sep) ==
    IF \A i \in 1 .. Len(s) : s[i] # sep THEN <<s>>
    ELSE LET k == CHOOSE i \in 1 .. Len(s) :
                      s[i] = sep /\ \A j \in 1 .. (i - 1) : s[j] # sep
         IN <<SubSeq(s, 1, k - 1)>> \o split(SubSeq(s, k + 1, Len(s)), sep)

Digits == <<"0", "1", "2", "3", "4", "5", "6", "7", "8", "9">>

IsDigit(c) == \E i \in 1 .. 10 : Digits[i] = c

DigitValue(c) == (CHOOSE i \in 1 .. 10 : Digits[i] = c) - 1

RECURSIVE strip(_)
strip(s) ==
    IF s = <<>> THEN s
    ELSE IF Head(s) = " " THEN strip(Tail(s))
    ELSE IF s[Len(s)] = " " THEN strip(SubSeq(s, 1, Len(s) - 1))
    ELSE s

RECURSIVE DecimalValue(_)
DecimalValue(s) ==
    IF s = <<>> THEN 0
    ELSE 10 * DecimalValue(SubSeq(s, 1, Len(s) - 1)) + DigitValue(s[Len(s)])

\* int(s): surrounding blanks are stripped, one sign is allowed, then at
\* least one decimal digit and nothing else; anything else is a ValueError.
int(s) ==
    LET t == strip(s)
        signed == t # <<>> /\ Head(t) \in {"+", "-"}
        body == IF signed THEN Tail(t) ELSE t
    IN  IF body # <<>> /\ \A i \in 1 .. Len(body) : IsDigit(body[i])
        THEN [ok |-> TRUE,
              value |-> IF signed /\ Head(t) = "-"
                        THEN 0 - DecimalValue(body) ELSE DecimalValue(body)]
        ELSE [ok |-> FALSE, value |-> 0]

\* ------------------------------------------------------------------ state
HabitIds == {"gym", "run"}

\* tracker.Completion
Completion == [habit_id : HabitIds, date : DateStrings, completed : BOOLEAN]

Logs == UNION {[1 .. n -> Completion] : n \in 0 .. MaxLog}

IdLists == UNION {[1 .. n -> HabitIds] : n \in 0 .. MaxIds}

VARIABLES
    history,    \* the "completions" list of data/history.json; <<>> when the file is missing
    habits_yaml,\* data/habits.yaml: whether the file exists and its "habits" list
    today,      \* date.today()
    call        \* the last call made: its name, its arguments and what it returned

vars == <<history, habits_yaml, today, call>>

\* No habits.yaml on disk.
NoHabitsFile == [exists |-> FALSE, habits |-> <<>>]

NoCall ==
    [op |-> "none", loaded |-> <<>>, habit_ids |-> <<>>, habit_id |-> "",
     frequency |-> <<>>, target_date |-> 0, status |-> "",
     start_date |-> <<>>, end_date |-> <<>>, raised |-> "", exported |-> <<>>,
     valid |-> FALSE, index |-> 0, exit_code |-> 0, offered |-> <<>>,
     editor_failed |-> FALSE, edited |-> <<>>]

\* ------------------------------------------------------------- evaluator
\* x in xs, for a list xs
contains(xs, x) == \E i \in 1 .. Len(xs) : xs[i] = x

RECURSIVE insert(_, _)
insert(xs, x) ==
    IF xs = <<>> THEN <<x>>
    ELSE IF x < Head(xs) THEN <<x>> \o xs
    ELSE <<Head(xs)>> \o insert(Tail(xs), x)

\* sorted(xs) for a list of dates
RECURSIVE sorted(_)
sorted(xs) ==
    IF xs = <<>> THEN <<>> ELSE insert(sorted(SubSeq(xs, 1, Len(xs) - 1)), xs[Len(xs)])

\* min(xs) for a non-empty list of dates
min(xs) == CHOOSE m \in {xs[i] : i \in 1 .. Len(xs)} :
               \A i \in 1 .. Len(xs) : m <= xs[i]

parse_dates(cs) == [i \in 1 .. Len(cs) |-> fromisoformat(cs[i].date)]

habit_completions_any_flag(habit_id, all_completions) ==
    SelectSeq(all_completions, LAMBDA c : c.habit_id = habit_id)

habit_completions_flag_inverted(habit_id, all_completions) ==
    SelectSeq(all_completions, LAMBDA c : c.habit_id = habit_id /\ ~c.completed)

habit_completions_of_all_habits(habit_id, all_completions) ==
    SelectSeq(all_completions, LAMBDA c : c.completed)

habit_completions(habit_id, all_completions) ==
    SelectSeq(all_completions, LAMBDA c : c.habit_id = habit_id /\ c.completed)

completion_dates(habit_id, all_completions) ==
    sorted(parse_dates(habit_completions(habit_id, all_completions)))

every_two_days_no_yesterday_check(target_date, dates, all_completions) ==
    LET yesterday == target_date - 1 IN
    IF all_completions # <<>>
    THEN IF yesterday < min(parse_dates(all_completions))
         THEN "not completed" ELSE "failed"
    ELSE "not completed"

every_two_days_epoch_inclusive(target_date, dates, all_completions) ==
    LET yesterday == target_date - 1 IN
    IF contains(dates, yesterday) THEN "not completed"
    ELSE IF all_completions # <<>>
    THEN IF yesterday <= min(parse_dates(all_completions))
         THEN "not completed" ELSE "failed"
    ELSE "not completed"

every_two_days_epoch_today(target_date, dates, all_completions) ==
    LET yesterday == target_date - 1 IN
    IF contains(dates, yesterday) THEN "not completed"
    ELSE IF all_completions # <<>>
    THEN IF target_date < min(parse_dates(all_completions))
         THEN "not completed" ELSE "failed"
    ELSE "not completed"

every_two_days_grace_of_two_days(target_date, dates, all_completions) ==
    LET yesterday == target_date - 1 IN
    IF contains(dates, yesterday) \/ contains(dates, yesterday - 1) THEN "not completed"
    ELSE IF all_completions # <<>>
    THEN IF yesterday < min(parse_dates(all_completions))
         THEN "not completed" ELSE "failed"
    ELSE "not completed"

\* The "every_two_days" branch; dates is the habit's sorted completion_dates.
every_two_days_status(target_date, dates, all_completions) ==
    LET yesterday == target_date - 1
        yesterday_completed == contains(dates, yesterday)
    IN  IF yesterday_completed THEN "not completed"
        ELSE IF all_completions # <<>>
        THEN LET earliest_completion == min(parse_dates(all_completions))
             IN  IF yesterday < earliest_completion
                 THEN "not completed" ELSE "failed"
        ELSE "not completed"

weekly_status_counting_up_to_target(frequency, target_date, dates) ==
    LET pieces == split(frequency, ":")
        parsed == IF Len(pieces) >= 2 THEN int(pieces[2]) ELSE [ok |-> FALSE, value |-> 0]
    IN  IF ~parsed.ok THEN "failed"
        ELSE LET week_start == target_date - weekday(target_date)
                 week_completions ==
                     SelectSeq(dates, LAMBDA d : week_start <= d /\ d <= target_date)
             IN  IF Len(week_completions) >= parsed.value
                 THEN "not completed" ELSE "failed"

\* The "weekly:X" branch; dates is the habit's sorted completion_dates.
weekly_status(frequency, target_date, dates) ==
    LET pieces == split(frequency, ":")
        parsed == IF Len(pieces) >= 2 THEN int(pieces[2]) ELSE [ok |-> FALSE, value |-> 0]
    IN  IF ~parsed.ok THEN "failed"
        ELSE LET required_count == parsed.value
                 week_start == target_date - weekday(target_date)
                 week_end == week_start + 6
                 week_completions ==
                     SelectSeq(dates, LAMBDA d : week_start <= d /\ d <= week_end)
                 completion_count == Len(week_completions)
             IN  IF completion_count >= required_count
                 THEN "not completed" ELSE "failed"

compute_habit_status(habit_id, frequency, target_date, all_completions) ==
    LET dates == completion_dates(habit_id, all_completions)
        is_completed == contains(dates, target_date)
    IN  IF is_completed THEN "completed"
        ELSE IF frequency = daily THEN "failed"
        ELSE IF frequency = every_two_days
        THEN every_two_days_status(target_date, dates, all_completions)
        ELSE IF startswith(frequency, weekly_prefix)
        THEN weekly_status(frequency, target_date, dates)
        ELSE "failed"

\* habits.is_valid_frequency
is_valid_frequency(frequency) ==
    IF frequency \in {daily, every_two_days} THEN TRUE
    ELSE IF startswith(frequency, weekly_prefix)
    THEN LET pieces == split(frequency, ":")
             parsed == IF Len(pieces) >= 2 THEN int(pieces[2])
                       ELSE [ok |-> FALSE, value |-> 0]
         IN  parsed.ok /\ 1 <= parsed.value /\ parsed.value <= 6
    ELSE FALSE

\* One call of compute_habit_status on the log as it stands.
ComputeHabitStatus ==
    /\ call.op = "none"
    /\ \E habit_id \in HabitIds, frequency \in Frequencies, target_date \in Dates :
           call' = [NoCall EXCEPT
                       !.op = "compute_habit_status",
                       !.habit_id = habit_id,
                       !.frequency = frequency,
                       !.target_date = target_date,
                       !.status = compute_habit_status(habit_id, frequency,
                                                       target_date, history)]
    /\ UNCHANGED <<history, habits_yaml, today>>

\* The evaluator on every log history.json can hold.
InitEval ==
    /\ history \in Logs
    /\ habits_yaml = NoHabitsFile
    /\ today = FirstDate
    /\ call = NoCall

NextEval == ComputeHabitStatus

SpecEval == InitEval /\ [][NextEval]_vars

\* ------------------------------------------------------------ log writer
new_records(habit_ids, date_str) ==
    [i \in 1 .. Len(habit_ids) |->
        [habit_id |-> habit_ids[i], date |-> date_str, completed |-> TRUE]]

mark_habits_completed_keep_existing(completions, habit_ids, target_date) ==
    completions \o new_records(habit_ids, isoformat(target_date))

mark_habits_completed_replacing_ids(completions, habit_ids, target_date) ==
    LET date_str == isoformat(target_date)
        kept == SelectSeq(completions, LAMBDA c : ~contains(habit_ids, c.habit_id))
    IN  kept \o new_records(habit_ids, date_str)

mark_habits_completed_replacing_marked_only(completions, habit_ids, target_date) ==
    LET date_str == isoformat(target_date)
        kept == SelectSeq(completions, LAMBDA c :
                    ~(c.date = date_str /\ contains(habit_ids, c.habit_id)))
    IN  kept \o new_records(habit_ids, date_str)

\* The "completions" list mark_habits_completed saves, given the one it loaded.
mark_habits_completed(completions, habit_ids, target_date) ==
    LET date_str == isoformat(target_date)
        kept == SelectSeq(completions, LAMBDA c : c.date # date_str)
    IN  kept \o new_records(habit_ids, date_str)

\* One call of mark_habits_completed: load_history, replace, save_history.
MarkHabitsCompleted ==
    \E habit_ids \in IdLists, target_date \in Dates :
        LET saved == mark_habits_completed(history, habit_ids, target_date) IN
        /\ Len(saved) <= MaxHistory
        /\ history' = saved
        /\ call' = [NoCall EXCEPT
                       !.op = "mark_habits_completed",
                       !.loaded = history,
                       !.habit_ids = habit_ids,
                       !.target_date = target_date]
        /\ UNCHANGED <<habits_yaml, today>>

\* The program on its own log: history.json does not exist at first.
Init ==
    /\ history = <<>>
    /\ habits_yaml = NoHabitsFile
    /\ today = FirstDate
    /\ call = NoCall

Next == MarkHabitsCompleted

Spec == Init /\ [][Next]_vars

\* ------------------------------------------------------- habits.yaml
\* None, and the empty value of an option that was not given.
None == <<>>

Names == [gym |-> "Gym", run |-> "Run"]

\* A habit of habits.yaml as the dict yaml.safe_load returns: start_date and
\* end_date are keys of the dict only when the entry has them.
HabitDict(id, frequency, start, end) ==
    LET base == [id |-> id, name |-> Names[id], description |-> "text",
                 frequency |-> frequency]
        started == IF start = None THEN base ELSE base @@ ("start_date" :> start)
    IN  IF end = None THEN started ELSE started @@ ("end_date" :> end)

ExportFrequencies == {every_two_days, Weekly(<<"1">>)}

\* Sunday 2025-11-30, Monday 2025-12-01 and Wednesday 2025-12-03, whatever
\* NumDays is.
ExportDates == {FirstDate, FirstDate + 1, FirstDate + 3}

ExportDateStrings == {isoformat(d) : d \in ExportDates}

\* The dates of the records in the log: before today.
ExportLogDateStrings == {isoformat(FirstDate), isoformat(FirstDate + 1)}

StartDateOptions == {None, isoformat(FirstDate), isoformat(FirstDate + 2)}

EndDateOptions == {None, isoformat(FirstDate + 1)}

\* Entries of habits.yaml: with a start_date and any end_date, or with the
\* four fields validate_habit asks for only.
ExportHabits ==
    {HabitDict(id, f, s, e) :
        id \in HabitIds, f \in ExportFrequencies,
        s \in StartDateOptions \ {None}, e \in EndDateOptions}
    \cup {HabitDict(id, f, None, None) : id \in HabitIds, f \in ExportFrequencies}

\* The habits lists of up to MaxHabits entries with pairwise distinct ids.
HabitLists(entries) ==
    {hs \in UNION {[1 .. n -> entries] : n \in 0 .. MaxHabits} :
        \A i, j \in 1 .. Len(hs) : hs[i].id = hs[j].id => i = j}

ExportCatalogs ==
    {NoHabitsFile} \cup {[exists |-> TRUE, habits |-> hs] : hs \in HabitLists(ExportHabits)}

ExportLogs ==
    UNION {[1 .. n -> [habit_id : HabitIds, date : ExportLogDateStrings,
                         completed : {TRUE}]] :
              n \in 0 .. MaxExportLog}

\* Tuesday 2025-12-02
ExportToday == FirstDate + 2

\* The --start and --end options: not given, or a date.
FilterOptions == {None} \cup ExportDateStrings

FilterEndOptions == {None, isoformat(FirstDate + 1), isoformat(FirstDate + 3)}

\* load_habits as export_history uses it: a missing file gives no habits.
load_habits_or_empty(file) == IF file.exists THEN file.habits ELSE <<>>

\* --------------------------------------------------------------- exporter
\* habit.get(key)
get(habit, key) == IF key \in DOMAIN habit THEN habit[key] ELSE None

dict_set_in_front(d, key, value) ==
    <<[key |-> key, value |-> value]>> \o SelectSeq(d, LAMBDA item : item.key # key)

\* d[key] = value on an insertion-ordered dict, kept as a list of items
dict_set(d, key, value) ==
    IF \E i \in 1 .. Len(d) : d[i].key = key
    THEN [i \in 1 .. Len(d) |->
             IF d[i].key = key THEN [key |-> key, value |-> value] ELSE d[i]]
    ELSE Append(d, [key |-> key, value |-> value])

day_statuses_end_exclusive(habit_id, habit_freq, range_start, range_end, completions) ==
    IF range_start >= range_end THEN <<>>
    ELSE [i \in 1 .. (range_end - range_start) |->
             [date |-> isoformat(range_start + i - 1),
              status |-> compute_habit_status(habit_id, habit_freq,
                                              range_start + i - 1, completions)]]

day_statuses_on_log_of_range(habit_id, habit_freq, range_start, range_end, completions) ==
    LET in_range == SelectSeq(completions, LAMBDA c :
                        /\ range_start <= fromisoformat(c.date)
                        /\ fromisoformat(c.date) <= range_end)
    IN  IF range_start > range_end THEN <<>>
        ELSE [i \in 1 .. (range_end - range_start + 1) |->
                 [date |-> isoformat(range_start + i - 1),
                  status |-> compute_habit_status(habit_id, habit_freq,
                                                  range_start + i - 1, in_range)]]

\* The while loop of export_history: one DayStatus per day of the range.
day_statuses(habit_id, habit_freq, range_start, range_end, completions) ==
    IF range_start > range_end THEN <<>>
    ELSE [i \in 1 .. (range_end - range_start + 1) |->
             [date |-> isoformat(range_start + i - 1),
              status |-> compute_habit_status(habit_id, habit_freq,
                                              range_start + i - 1, completions)]]

max2_takes_smaller(a, b) == IF a <= b THEN a ELSE b

max2(a, b) == IF a >= b THEN a ELSE b

min2(a, b) == IF a <= b THEN a ELSE b

\* The body of the per-habit loop for a habit that has every key it reads.
export_entry(habit, filter_start, filter_end, completions, today_) ==
    LET habit_start_str == habit["start_date"]
        habit_end_str == get(habit, "end_date")
        habit_start == fromisoformat(habit_start_str)
        habit_end == IF habit_end_str # None THEN fromisoformat(habit_end_str)
                     ELSE today_
        range_start == max2(habit_start, filter_start)
        range_end == min2(habit_end, filter_end)
        entry == [name |-> habit["name"],
                  description |-> habit["description"],
                  frequency |-> habit["frequency"],
                  start_date |-> habit_start_str,
                  history |-> day_statuses(habit["id"], habit["frequency"],
                                           range_start, range_end, completions)]
    IN  IF habit_end_str # None THEN entry @@ ("end_date" :> habit_end_str)
        ELSE entry

ExportKeys == {"id", "name", "description", "frequency", "start_date"}

RECURSIVE export_loop(_, _, _, _, _, _, _)
export_loop(all_habits, k, export_data, filter_start, filter_end, completions, today_) ==
    IF k > Len(all_habits) THEN [raised |-> "", exported |-> export_data]
    ELSE IF ~(ExportKeys \subseteq DOMAIN all_habits[k])
    THEN [raised |-> "KeyError", exported |-> <<>>]
    ELSE export_loop(all_habits, k + 1,
                     dict_set(export_data, all_habits[k]["id"],
                              export_entry(all_habits[k], filter_start, filter_end,
                                           completions, today_)),
                     filter_start, filter_end, completions, today_)

export_history_from_today(completions, file, start_date, end_date, today_) ==
    LET filter_start == IF start_date # None THEN fromisoformat(start_date) ELSE today_
        filter_end == IF end_date # None THEN fromisoformat(end_date) ELSE today_
    IN  export_loop(load_habits_or_empty(file), 1, <<>>, filter_start, filter_end,
                    completions, today_)

\* export_history: what it returns (the mapping json.dumps serialises, in
\* insertion order) or the exception it raises.
export_history(completions, file, start_date, end_date, today_) ==
    LET all_habits == load_habits_or_empty(file)
        earliest_completion ==
            IF completions # <<>> THEN min(parse_dates(completions)) ELSE today_
        latest_completion == today_
        filter_start == IF start_date # None THEN fromisoformat(start_date)
                        ELSE earliest_completion
        filter_end == IF end_date # None THEN fromisoformat(end_date)
                      ELSE latest_completion
    IN  export_loop(all_habits, 1, <<>>, filter_start, filter_end, completions, today_)

\* The export command: one call of export_history on the files as they are.
ExportHistory_saving_known_habits ==
    /\ \E start_date \in FilterOptions, end_date \in FilterEndOptions :
           LET out == export_history(history, habits_yaml, start_date, end_date, today)
           IN  /\ call.op = "export_history"
                      => (start_date = call.start_date /\ end_date = call.end_date)
               /\ call' = [NoCall EXCEPT
                              !.op = "export_history",
                              !.start_date = start_date,
                              !.end_date = end_date,
                              !.raised = out.raised,
                              !.exported = out.exported]
    /\ history' = SelectSeq(history, LAMBDA c :
                       \E k \in 1 .. Len(habits_yaml.habits) :
                           habits_yaml.habits[k].id = c.habit_id)
    /\ UNCHANGED <<habits_yaml, today>>

\* A run that follows another one repeats its options.
ExportHistory ==
    /\ \E start_date \in FilterOptions, end_date \in FilterEndOptions :
           LET out == export_history(history, habits_yaml, start_date, end_date, today)
           IN  /\ call.op = "export_history"
                      => (start_date = call.start_date /\ end_date = call.end_date)
               /\ call' = [NoCall EXCEPT
                              !.op = "export_history",
                              !.start_date = start_date,
                              !.end_date = end_date,
                              !.raised = out.raised,
                              !.exported = out.exported]
    /\ UNCHANGED <<history, habits_yaml, today>>

\* The exporter on the catalogs and logs the two files can hold.
InitExport ==
    /\ history \in ExportLogs
    /\ habits_yaml \in ExportCatalogs
    /\ today = ExportToday
    /\ call = NoCall

NextExport == ExportHistory

SpecExport == InitExport /\ [][NextExport]_vars

\* ------------------------------------------------------ frequency checker
\* The characters a frequency string continues with after "weekly:".
FreqAlphabet == {"0", "1", "3", "6", "7", " ", "-", "+", ":", "a"}

FreqTails == UNION {[1 .. n -> FreqAlphabet] : n \in 0 .. MaxTail}

\* The strings handed to is_valid_frequency.
FrequencyStrings ==
    {daily, every_two_days, monthly, weekly_no_colon, <<>>,
     daily \o <<" ">>, <<" ">> \o daily, weekly_no_colon \o <<"3">>}
        \cup {Weekly(tail) : tail \in FreqTails}

IsValidFrequency ==
    /\ \E frequency \in FrequencyStrings :
           call' = [NoCall EXCEPT
                      !.op = "is_valid_frequency",
                      !.frequency = frequency,
                      !.valid = is_valid_frequency(frequency)]
    /\ UNCHANGED <<history, habits_yaml, today>>

InitFreq ==
    /\ history = <<>>
    /\ habits_yaml = NoHabitsFile
    /\ today = FirstDate
    /\ call = NoCall

NextFreq == IsValidFrequency

SpecFreq == InitFreq /\ [][NextFreq]_vars

\* ------------------------------------------------------------ validation
\* A habits.yaml entry written without one of its keys.
without(habit, key) == [k \in DOMAIN habit \ {key} |-> habit[k]]

validate_habit(habit) ==
    IF ~({"id", "name", "description", "frequency"} \subseteq DOMAIN habit)
    THEN FALSE
    ELSE is_valid_frequency(habit.frequency)

\* ---------------------------------------------------------- mark command
\* Monday 2025-12-01; "yesterday" is FirstDate.
MarkToday == FirstDate + 1

MarkDateStrings == {isoformat(FirstDate), isoformat(MarkToday)}

\* Entries of habits.yaml: well formed ones with every window around the two
\* target dates, one with a frequency that is not valid, one without name.
MarkHabits ==
    {HabitDict(id, daily, s, e) :
        id \in HabitIds, s \in {None} \cup MarkDateStrings,
        e \in {None, isoformat(FirstDate)}}
    \cup {HabitDict(id, Weekly(<<"7">>), isoformat(FirstDate), None) : id \in HabitIds}
    \cup {without(HabitDict(id, daily, isoformat(FirstDate), None), "name") :
             id \in HabitIds}

MarkCatalogs ==
    {NoHabitsFile} \cup {[exists |-> TRUE, habits |-> hs] : hs \in HabitLists(MarkHabits)}

MarkLogs ==
    UNION {[1 .. n -> [habit_id : HabitIds, date : MarkDateStrings, completed : BOOLEAN]] :
              n \in 0 .. MaxMarkLog}

WhenChoices == {"today", "yesterday"}

\* valid_habits: the habits of the catalog that pass validate_habit
valid_habits_of(all_habits) == SelectSeq(all_habits, validate_habit)

\* is_active of the filter loop; reads habit["start_date"]
is_active(habit, target_date) ==
    LET habit_start == fromisoformat(habit.start_date)
        habit_end_str == get(habit, "end_date")
    IN  /\ habit_start <= target_date
        /\ habit_end_str = None \/ target_date <= fromisoformat(habit_end_str)

get_completions_for_date(completions, target_date) ==
    {completions[i].habit_id : i \in
        {j \in 1 .. Len(completions) :
            /\ completions[j].date = isoformat(target_date)
            /\ completions[j].completed}}

\* A line of the temp file is a sequence of symbols: the characters of the
\* mark-up, with a habit id and a habit name as one symbol each.
checklist_line(habit, completed) ==
    <<"[", IF habit.id \in completed THEN "x" ELSE " ", "]", " ",
      habit.id, ":", " ", habit.name>>

\* The comment lines and the blank line the temp file starts with.
checklist_header ==
    <<<<"#", " ", "Mark">>, <<"#", " ", "Add">>, <<"#", " ", "Lines">>, <<>>>>

checklist(all_habits, completed) ==
    checklist_header
        \o [k \in 1 .. Len(all_habits) |-> checklist_line(all_habits[k], completed)]

\* "".join(symbols): the Python string a sequence of symbols spells
RECURSIVE join(_)
join(symbols) == IF symbols = <<>> THEN "" ELSE Head(symbols) \o join(Tail(symbols))

\* The ids one line of the edited file adds to completed_ids.
parse_line(line) ==
    LET l == strip(line)
    IN  IF l = <<>> \/ Head(l) = "#" THEN <<>>
        ELSE IF Head(l) = "[" /\ Len(l) > 2 /\ l[2] \notin {" ", "]"}
        THEN LET pieces == split(l, "]")
             IN  IF Len(pieces) < 2 THEN <<>>
                 ELSE <<join(strip(split(pieces[2], ":")[1]))>>
        ELSE <<>>

RECURSIVE parse_checklist(_)
parse_checklist(lines) ==
    IF lines = <<>> THEN <<>>
    ELSE parse_line(Head(lines)) \o parse_checklist(Tail(lines))

\* What the user can put between the brackets of a checklist line.
MarkChars == {" ", "x"}

\* The files the editor can leave: the template with the mark of every
\* checklist line set by the user.
Edits(template) ==
    LET h == Len(checklist_header)
        n == Len(template) - h
    IN  {[k \in 1 .. Len(template) |->
             IF k <= h THEN template[k] ELSE [template[k] EXCEPT ![2] = marks[k - h]]] :
         marks \in [1 .. n -> MarkChars]}

\* What the editor run can end in: a failure (not found, non-zero exit) or
\* an edited file.
EditorOutcomes(template) ==
    {[failed |-> TRUE, lines |-> template]}
        \cup {[failed |-> FALSE, lines |-> lines] : lines \in Edits(template)}

\* mark up to the call of the editor: either the command has stopped
\* (sys.exit(1) or an exception that is not caught), or the temp file is
\* written.
mark_until_editor(file, completions, target_date) ==
    LET stop(raised) == [stopped |-> TRUE, raised |-> raised, offered |-> <<>>,
                         template |-> <<>>]
    IN  IF ~file.exists THEN stop("")
        ELSE IF file.habits = <<>> THEN stop("")
        ELSE LET valid_habits == valid_habits_of(file.habits)
             IN  IF valid_habits = <<>> THEN stop("")
                 ELSE IF \E k \in 1 .. Len(valid_habits) :
                             "start_date" \notin DOMAIN valid_habits[k]
                 THEN stop("KeyError")
                 ELSE LET active_habits ==
                              SelectSeq(valid_habits,
                                        LAMBDA habit : is_active(habit, target_date))
                          completed == get_completions_for_date(completions, target_date)
                      IN  IF active_habits = <<>> THEN stop("")
                          ELSE [stopped |-> FALSE, raised |-> "",
                                offered |-> [k \in 1 .. Len(active_habits) |->
                                                active_habits[k].id],
                                template |-> checklist(active_habits, completed)]

mark_after_editor_ignoring_failure(outcome, completions, target_date) ==
    LET completed_ids == parse_checklist(outcome.lines)
    IN  [exit_code |-> 0, completed_ids |-> completed_ids,
         saved |-> mark_habits_completed(completions, completed_ids, target_date)]

\* mark from the return of the editor: exit on a failed editor, otherwise
\* parse the file and save the marked ids.
mark_after_editor(outcome, completions, target_date) ==
    IF outcome.failed
    THEN [exit_code |-> 1, completed_ids |-> <<>>, saved |-> completions]
    ELSE LET completed_ids == parse_checklist(outcome.lines)
         IN  [exit_code |-> 0, completed_ids |-> completed_ids,
              saved |-> mark_habits_completed(completions, completed_ids, target_date)]

\* One run of `habits mark today|yesterday`.
MarkCommand ==
    /\ call.op = "none"
    /\ \E when \in WhenChoices :
           LET target_date == IF when = "yesterday" THEN today - 1 ELSE today
               pre == mark_until_editor(habits_yaml, history, target_date)
           IN  IF pre.stopped
               THEN /\ history' = history
                    /\ call' = [NoCall EXCEPT
                                  !.op = "mark",
                                  !.target_date = target_date,
                                  !.loaded = history,
                                  !.raised = pre.raised,
                                  !.exit_code = 1]
               ELSE \E outcome \in EditorOutcomes(pre.template) :
                        LET post == mark_after_editor(outcome, history, target_date)
                        IN  /\ history' = post.saved
                            /\ call' = [NoCall EXCEPT
                                          !.op = "mark",
                                          !.target_date = target_date,
                                          !.loaded = history,
                                          !.offered = pre.offered,
                                          !.editor_failed = outcome.failed,
                                          !.edited = outcome.lines,
                                          !.habit_ids = post.completed_ids,
                                          !.exit_code = post.exit_code]
    /\ UNCHANGED <<habits_yaml, today>>

\* validate_habit on one entry of habits.yaml
ValidateHabit ==
    /\ call.op = "none"
    /\ habits_yaml.exists
    /\ \E k \in 1 .. Len(habits_yaml.habits) :
           call' = [NoCall EXCEPT
                      !.op = "validate_habit",
                      !.index = k,
                      !.valid = validate_habit(habits_yaml.habits[k])]
    /\ UNCHANGED <<history, habits_yaml, today>>

InitMark ==
    /\ history \in MarkLogs
    /\ habits_yaml \in MarkCatalogs
    /\ today = MarkToday
    /\ call = NoCall

NextMark == MarkCommand \/ ValidateHabit

SpecMark == InitMark /\ [][NextMark]_vars

\* ----------------------------------------------------------------- claims
Evaluated == call.op = "compute_habit_status"

Marked == call.op = "mark_habits_completed"

\* The log holds a record of habit h dated d with completed = true.
CompletedOn(log, h, d) ==
    \E i \in 1 .. Len(log) :
        log[i].habit_id = h /\ log[i].completed /\ fromisoformat(log[i].date) = d

\* The log holds a record, of any habit and any flag, dated d or earlier.
TrackedBy(log, d) == \E i \in 1 .. Len(log) : fromisoformat(log[i].date) <= d

\* The dates of the Monday-to-Sunday week of d on which h is completed.
WeekDatesCompleted(log, h, d) ==
    {e \in (d - weekday(d)) .. (d - weekday(d) + 6) : CompletedOn(log, h, e)}

\* C1: whatever the frequency string and the rest of the log, a date that has
\* a completed=true record of the habit evaluates to "completed".
C1_CompletedRecordWins ==
    (Evaluated /\ CompletedOn(history, call.habit_id, call.target_date))
        => call.status = "completed"

C1_Witness ==
    /\ Evaluated
    /\ CompletedOn(history, call.habit_id, call.target_date)
    /\ call.frequency = Weekly(<<"a", "b", "c">>)
    /\ \E i \in 1 .. Len(history) : ~history[i].completed
    /\ call.status = "completed"

\* C2: a "daily" habit is "failed" on every date without a completed=true
\* record of it, whatever else the log holds, and is never "not completed".
C2_DailyNoGrace ==
    (Evaluated /\ call.frequency = daily)
        => /\ call.status # "not completed"
           /\ ~CompletedOn(history, call.habit_id, call.target_date)
                  => call.status = "failed"

C2_Witness ==
    /\ Evaluated
    /\ call.frequency = daily
    /\ ~CompletedOn(history, call.habit_id, call.target_date)
    /\ CompletedOn(history, call.habit_id, call.target_date - 1)
    /\ \E i \in 1 .. Len(history) :
           /\ history[i].habit_id = call.habit_id
           /\ fromisoformat(history[i].date) = call.target_date
           /\ ~history[i].completed
    /\ call.status = "failed"

\* C3: an "every_two_days" habit not completed on d but completed on d-1 is
\* "not completed" on d.
C3_GraceAfterCompletion ==
    ( /\ Evaluated
      /\ call.frequency = every_two_days
      /\ ~CompletedOn(history, call.habit_id, call.target_date)
      /\ CompletedOn(history, call.habit_id, call.target_date - 1) )
        => call.status = "not completed"

C3_Witness ==
    /\ Evaluated
    /\ call.frequency = every_two_days
    /\ ~CompletedOn(history, call.habit_id, call.target_date)
    /\ CompletedOn(history, call.habit_id, call.target_date - 1)
    /\ TrackedBy(history, call.target_date - 2)
    /\ call.status = "not completed"

\* C4: an "every_two_days" habit completed neither on d nor on d-1 is
\* "failed" on d when d-1 is on or after the earliest date of the log.
C4_FailedAfterTwoMisses ==
    ( /\ Evaluated
      /\ call.frequency = every_two_days
      /\ ~CompletedOn(history, call.habit_id, call.target_date)
      /\ ~CompletedOn(history, call.habit_id, call.target_date - 1)
      /\ TrackedBy(history, call.target_date - 1) )
        => call.status = "failed"

C4_Witness ==
    /\ Evaluated
    /\ call.frequency = every_two_days
    /\ ~CompletedOn(history, call.habit_id, call.target_date)
    /\ ~CompletedOn(history, call.habit_id, call.target_date - 1)
    /\ ~TrackedBy(history, call.target_date - 2)
    /\ \E i \in 1 .. Len(history) :
           /\ history[i].habit_id # call.habit_id
           /\ fromisoformat(history[i].date) = call.target_date - 1
    /\ call.status = "failed"

\* C5: an "every_two_days" habit completed neither on d nor on d-1 is
\* "not completed" on d when the log is empty or d-1 is earlier than every
\* date of the log, the dates of other habits' records included.
C5_GraceBeforeTracking ==
    ( /\ Evaluated
      /\ call.frequency = every_two_days
      /\ ~CompletedOn(history, call.habit_id, call.target_date)
      /\ ~CompletedOn(history, call.habit_id, call.target_date - 1)
      /\ ~TrackedBy(history, call.target_date - 1) )
        => call.status = "not completed"

C5_Witness ==
    /\ Evaluated
    /\ call.frequency = every_two_days
    /\ ~CompletedOn(history, call.habit_id, call.target_date)
    /\ history # <<>>
    /\ \A i \in 1 .. Len(history) :
           /\ history[i].habit_id # call.habit_id
           /\ fromisoformat(history[i].date) = call.target_date
    /\ call.status = "not completed"

\* C6: a "weekly:n" habit, n in 1..6, on a date without a completion of it is
\* "not completed" exactly when at least n dates of the Monday-to-Sunday
\* week of that date are completed, and "failed" otherwise.
C6_WeeklyQuotaByDates ==
    ( /\ Evaluated
      /\ \E n \in 1 .. 6 : call.frequency = Weekly(<<Digits[n + 1]>>)
      /\ ~CompletedOn(history, call.habit_id, call.target_date) )
        => LET n == CHOOSE k \in 1 .. 6 : call.frequency = Weekly(<<Digits[k + 1]>>)
               count == Cardinality(WeekDatesCompleted(history, call.habit_id,
                                                       call.target_date))
           IN  call.status = IF count >= n THEN "not completed" ELSE "failed"

\* C7: for every rule, adding a second copy of a record the log already holds
\* does not change the status.
C7_DuplicateRecordsIgnored ==
    Evaluated
        => \A i \in 1 .. Len(history) :
               compute_habit_status(call.habit_id, call.frequency, call.target_date,
                                    Append(history, history[i])) = call.status

\* C8: a frequency string that is_valid_frequency rejects evaluates to
\* "failed" on every date without a completed=true record of the habit.
C8_MalformedFrequencyFails ==
    ( /\ Evaluated
      /\ ~is_valid_frequency(call.frequency)
      /\ ~CompletedOn(history, call.habit_id, call.target_date) )
        => call.status = "failed"

\* C9: from an empty log, after any calls of mark_habits_completed, no two
\* records of the log have the same habit_id and the same date.
C9_OneRecordPerHabitAndDate ==
    \A i, j \in 1 .. Len(history) :
        (history[i].habit_id = history[j].habit_id /\ history[i].date = history[j].date)
            => i = j

\* C10: after mark_habits_completed(ids, d) the records of the log dated d
\* are the given ids in the given order, each with completed = true.
C10_DateHoldsGivenIds ==
    Marked
        => LET dated == SelectSeq(history,
                            LAMBDA c : fromisoformat(c.date) = call.target_date)
           IN  /\ Len(dated) = Len(call.habit_ids)
               /\ \A i \in 1 .. Len(dated) :
                      dated[i].habit_id = call.habit_ids[i] /\ dated[i].completed

C10_Witness ==
    /\ Marked
    /\ call.habit_ids = <<"run">>
    /\ \E i \in 1 .. Len(call.loaded) :
           /\ call.loaded[i].habit_id = "gym"
           /\ fromisoformat(call.loaded[i].date) = call.target_date
    /\ \E i \in 1 .. Len(call.loaded) :
           fromisoformat(call.loaded[i].date) # call.target_date
    /\ Len(history) = Len(call.loaded)

\* C11: a call of mark_habits_completed that repeats the ids and the date of
\* the call before it leaves the log as that call left it.
C11_RemarkKeepsLog ==
    [][ ( /\ Marked
          /\ call'.op = "mark_habits_completed"
          /\ call'.habit_ids = call.habit_ids
          /\ call'.target_date = call.target_date )
            => history' = history ]_vars

C11_Witness ==
    /\ Marked
    /\ Len(call.habit_ids) = 2
    /\ call.loaded = history
    /\ \E i \in 1 .. Len(history) : fromisoformat(history[i].date) # call.target_date
    /\ \E i \in 1 .. Len(history) : fromisoformat(history[i].date) = call.target_date

\* ---------------------------------------------------------- claims: export
Exported == call.op = "export_history"

Returned == Exported /\ call.raised = ""

\* The habits list of habits.yaml, empty when the file is missing.
Catalog == IF habits_yaml.exists THEN habits_yaml.habits ELSE <<>>

\* Every habit of the catalog has the start_date the data model requires.
CatalogHasStartDates == \A k \in 1 .. Len(Catalog) : "start_date" \in DOMAIN Catalog[k]

\* The earliest date of the log, or today when the log is empty.
EarliestOrToday ==
    IF history = <<>> THEN today
    ELSE CHOOSE d \in {fromisoformat(history[i].date) : i \in 1 .. Len(history)} :
             ~TrackedBy(history, d - 1)

\* The filter range of the last export, defaults resolved.
FilterStart ==
    IF call.start_date = None THEN EarliestOrToday ELSE fromisoformat(call.start_date)

FilterEnd == IF call.end_date = None THEN today ELSE fromisoformat(call.end_date)

\* The days of [start_date, end_date or today] that lie in the filter range.
Window(habit) ==
    LET habit_start == fromisoformat(habit.start_date)
        habit_end == IF "end_date" \in DOMAIN habit THEN fromisoformat(habit.end_date)
                     ELSE today
        filter_start == FilterStart
        filter_end == FilterEnd
    IN  {d \in CalendarDays :
            /\ habit_start <= d
            /\ d <= habit_end
            /\ filter_start <= d
            /\ d <= filter_end}

\* The entries of the exported mapping stored under a habit id.
EntriesOf(id) == SelectSeq(call.exported, LAMBDA item : item.key = id)

\* C12: the exported history of each habit has exactly one entry per day of
\* the intersection of its active window and the filter range, in ascending
\* order without gap or repeat, each with the status compute_habit_status
\* gives for that habit and day on the full log.
C12_HistoryCoversWindow ==
    Returned
        => \A k \in 1 .. Len(Catalog) :
               LET habit == Catalog[k]
                   hist == EntriesOf(habit.id)[1].value.history
                   window == Window(habit)
               IN  /\ Len(hist) = Cardinality(window)
                   /\ \A i \in 1 .. Len(hist) :
                          /\ fromisoformat(hist[i].date) \in window
                          /\ i > 1 => fromisoformat(hist[i].date)
                                          = fromisoformat(hist[i - 1].date) + 1
                          /\ hist[i].status =
                                 compute_habit_status(habit.id, habit.frequency,
                                     fromisoformat(hist[i].date), history)

C12_Witness ==
    /\ Returned
    /\ call.start_date # None
    /\ call.end_date # None
    /\ \E k \in 1 .. Len(Catalog) :
           LET hist == EntriesOf(Catalog[k].id)[1].value.history
           IN  /\ "end_date" \in DOMAIN Catalog[k]
               /\ Len(hist) = 2
               /\ fromisoformat(call.start_date) = fromisoformat(hist[1].date)
               /\ fromisoformat(hist[2].date) < fromisoformat(call.end_date)
               /\ hist[1].status = "completed"
               /\ hist[2].status = "not completed"

\* C13: when every habit has its start_date, export raises no error, and a
\* habit whose active window does not meet the filter range is in the export
\* with its metadata and an empty history.
C13_EmptyWindowKept ==
    (Exported /\ CatalogHasStartDates)
        => /\ call.raised = ""
           /\ \A k \in 1 .. Len(Catalog) :
                  LET habit == Catalog[k] IN
                  Window(habit) = {}
                      => /\ Len(EntriesOf(habit.id)) = 1
                         /\ LET entry == EntriesOf(habit.id)[1].value
                            IN  /\ entry.history = <<>>
                                /\ entry.name = habit.name
                                /\ entry.description = habit.description
                                /\ entry.frequency = habit.frequency
                                /\ entry.start_date = habit.start_date
                                /\ "end_date" \in DOMAIN habit
                                       => entry.end_date = habit.end_date

C13_Witness ==
    /\ Returned
    /\ \E k \in 1 .. Len(Catalog) :
           /\ "end_date" \in DOMAIN Catalog[k]
           /\ fromisoformat(Catalog[k].end_date) < fromisoformat(Catalog[k].start_date)
           /\ EntriesOf(Catalog[k].id)[1].value.history = <<>>
    /\ \E k \in 1 .. Len(Catalog) :
           EntriesOf(Catalog[k].id)[1].value.history # <<>>

\* C14: an option that is not given stands for the earliest date of the log
\* (today when the log is empty) as start and for today as end; so with an
\* empty log and no option a habit active today has one entry, dated today.
C14_DefaultRange ==
    Exported
        => /\ LET explicit == export_history(history, habits_yaml,
                                  isoformat(FilterStart), isoformat(FilterEnd), today)
              IN  call.raised = explicit.raised /\ call.exported = explicit.exported
           /\ (Returned /\ history = <<>> /\ call.start_date = None
                        /\ call.end_date = None)
                  => \A k \in 1 .. Len(Catalog) :
                         LET habit == Catalog[k]
                             hist == EntriesOf(habit.id)[1].value.history
                         IN  ( /\ fromisoformat(habit.start_date) <= today
                               /\ "end_date" \in DOMAIN habit
                                      => today <= fromisoformat(habit.end_date) )
                                 => /\ Len(hist) = 1
                                    /\ hist[1].date = isoformat(today)

C14_Witness ==
    /\ Returned
    /\ call.start_date = None
    /\ call.end_date = None
    /\ history # <<>>
    /\ EarliestOrToday < today
    /\ \E k \in 1 .. Len(Catalog) :
           LET hist == EntriesOf(Catalog[k].id)[1].value.history
           IN  /\ hist # <<>>
               /\ hist[1].date = isoformat(EarliestOrToday)
               /\ hist[Len(hist)].date = isoformat(today)

\* C15: the keys of the exported mapping are the ids of the catalog, in
\* catalog order, one per habit; an empty catalog or a missing habits file
\* gives the empty mapping.
C15_KeysFollowCatalog ==
    (Exported /\ CatalogHasStartDates)
        => /\ call.raised = ""
           /\ Len(call.exported) = Len(Catalog)
           /\ \A k \in 1 .. Len(Catalog) : call.exported[k].key = Catalog[k].id

C15_Witness ==
    /\ Returned
    /\ Len(Catalog) = 2
    /\ Catalog[1].id = "run"
    /\ call.exported[1].key = "run"
    /\ call.exported[2].key = "gym"

C17_ExportWithoutStartDate ==
    ( /\ Exported
      /\ call.start_date # None
      /\ call.end_date # None
      /\ Len(Catalog) = 1
      /\ DOMAIN Catalog[1] = {"id", "name", "description", "frequency"} )
        => /\ call.raised = ""
           /\ Len(EntriesOf(Catalog[1].id)) = 1
           /\ LET hist == EntriesOf(Catalog[1].id)[1].value.history
                  s == fromisoformat(call.start_date)
                  e == fromisoformat(call.end_date)
              IN  /\ Len(hist) = (IF s <= e THEN e - s + 1 ELSE 0)
                  /\ \A i \in 1 .. Len(hist) : hist[i].date = isoformat(s + i - 1)

\* ------------------------------------------------- claims: frequency checker
\* The grammar of rule strings: "daily" | "every_two_days" | "weekly:" DIGIT(1-6)
FrequencyGrammar ==
    {daily, every_two_days} \cup {Weekly(<<Digits[n + 1]>>) : n \in 1 .. 6}

\* C18: is_valid_frequency accepts exactly the strings of the grammar.
C18_AcceptsExactlyGrammar ==
    call.op = "is_valid_frequency"
        => (call.valid <=> call.frequency \in FrequencyGrammar)

\* ------------------------------------------------------ claims: validation
\* C19: validate_habit returns True only for a habit that has id, name,
\* description, frequency and start_date and a valid frequency, so no mark
\* run fails on a missing field of a habit that passed validation.
C19_ValidatedHabitsHaveStartDate ==
    /\ (call.op = "validate_habit" /\ call.valid)
           => LET habit == habits_yaml.habits[call.index]
              IN  /\ {"id", "name", "description", "frequency", "start_date"}
                         \subseteq DOMAIN habit
                  /\ is_valid_frequency(habit.frequency)
    /\ call.op = "mark" => call.raised # "KeyError"

\* ---------------------------------------------------- claims: mark command
\* The error cases of the mark command, told from its inputs: habits file
\* missing, no habits defined, no valid habit, no habit active on the target
\* date, editor failed.
MarkErrorCase ==
    \/ ~habits_yaml.exists
    \/ Catalog = <<>>
    \/ valid_habits_of(Catalog) = <<>>
    \/ LET valid_habits == valid_habits_of(Catalog)
       IN  /\ \A k \in 1 .. Len(valid_habits) : "start_date" \in DOMAIN valid_habits[k]
           /\ \A k \in 1 .. Len(valid_habits) :
                  ~is_active(valid_habits[k], call.target_date)
    \/ call.editor_failed

\* C20: a mark run that ends in one of its error cases exits with status 1
\* and leaves the completion log as it was when the run started.
C20_MarkErrorKeepsLog ==
    (call.op = "mark" /\ MarkErrorCase)
        => (call.exit_code = 1 /\ history = call.loaded)

C20_Witness ==
    /\ call.op = "mark"
    /\ call.editor_failed
    /\ call.exit_code = 1
    /\ Len(call.offered) = 2
    /\ \E i \in 1 .. Len(history) :
           /\ fromisoformat(history[i].date) = call.target_date
           /\ ~history[i].completed

\* ------------------------------------------------------ claims: log writer
\* The records of a log that are not dated d, in the order of the log.
OtherDates(log, d) == SelectSeq(log, LAMBDA c : fromisoformat(c.date) # d)

\* C21: mark_habits_completed(ids, d) keeps every record whose date is not d,
\* unchanged and in the same relative order; what it removes and what it
\* adds is dated d.
C21_OtherDatesKept ==
    Marked
        => /\ OtherDates(history, call.target_date)
                  = OtherDates(call.loaded, call.target_date)
           /\ Len(history) = Len(OtherDates(call.loaded, call.target_date))
                                 + Len(call.habit_ids)

C21_Witness ==
    /\ Marked
    /\ call.habit_ids # <<>>
    /\ Len(OtherDates(call.loaded, call.target_date)) = 2
    /\ call.loaded[1].habit_id = call.habit_ids[1]
    /\ fromisoformat(call.loaded[1].date) # call.target_date
    /\ Len(call.loaded) = 3
    /\ fromisoformat(call.loaded[2].date) = call.target_date

\* ------------------------------------------------- claims: evaluator inputs
\* The log without its completed=false records.
CompletedOnly(log) == SelectSeq(log, LAMBDA c : c.completed)

\* C22: completed=false records have no influence on the evaluator: the
\* status over the log is the status over the log without them.
C22_FalseRecordsIgnored ==
    Evaluated
        => call.status = compute_habit_status(call.habit_id, call.frequency,
                             call.target_date, CompletedOnly(history))

\* The records of one habit, in the order of the log.
OwnRecords(log, habit_id) == SelectSeq(log, LAMBDA c : c.habit_id = habit_id)

\* A log with the own records of a habit and the earliest date of the given
\* log: the own records, after one record of another habit on the earliest
\* date when no own record has it.
OwnRecordsAndEpoch(log, habit_id) ==
    LET own == OwnRecords(log, habit_id)
    IN  IF log = <<>> \/ \E i \in 1 .. Len(own) : ~TrackedBy(log, fromisoformat(own[i].date) - 1)
        THEN own
        ELSE LET first == CHOOSE i \in 1 .. Len(log) :
                              ~TrackedBy(log, fromisoformat(log[i].date) - 1)
                 other == CHOOSE id \in HabitIds : id # habit_id
             IN  <<[habit_id |-> other, date |-> log[first].date, completed |-> FALSE]>>
                     \o own

\* C23: for every rule but every_two_days the status of a habit depends on
\* the records of that habit only; for every_two_days it depends on them and
\* on the earliest date of the log only.
C23_OtherHabitsOnlyMoveEpoch ==
    Evaluated
        => IF call.frequency = every_two_days
           THEN call.status =
                    compute_habit_status(call.habit_id, call.frequency, call.target_date,
                        OwnRecordsAndEpoch(history, call.habit_id))
           ELSE call.status =
                    compute_habit_status(call.habit_id, call.frequency, call.target_date,
                        OwnRecords(history, call.habit_id))

C23_Witness ==
    /\ Evaluated
    /\ call.frequency = Weekly(<<"1">>)
    /\ call.status = "failed"
    /\ OwnRecords(history, call.habit_id) = <<>>
    /\ \E i \in 1 .. Len(history) :
           /\ history[i].completed
           /\ fromisoformat(history[i].date) = call.target_date

\* ------------------------------------------------- claims: exported statuses
\* The history an exported mapping holds for a habit id.
DayStatusesOf(exported, id) ==
    LET entries == SelectSeq(exported, LAMBDA item : item.key = id)
    IN  IF entries = <<>> THEN <<>> ELSE entries[1].value.history

\* The statuses an exported mapping gives a habit on a day.
StatusesOn(exported, id, date_str) ==
    LET hist == DayStatusesOf(exported, id)
    IN  {hist[i].status : i \in {j \in 1 .. Len(hist) : hist[j].date = date_str}}

\* C24: a day that is in two exports of the same catalog and log taken with
\* different filter ranges has the same status in both.
C24_StatusIgnoresFilter ==
    Returned
        => \A start_date \in FilterOptions, end_date \in FilterEndOptions :
               LET other == export_history(history, habits_yaml, start_date,
                                           end_date, today).exported
               IN  \A k \in 1 .. Len(call.exported) :
                       LET id == call.exported[k].key
                           hist == call.exported[k].value.history
                       IN  \A i \in 1 .. Len(hist) :
                               \A status \in StatusesOn(other, id, hist[i].date) :
                                   status = hist[i].status

C24_Witness ==
    /\ Returned
    /\ call.start_date = isoformat(FirstDate + 1)
    /\ \E i \in 1 .. Len(history) : fromisoformat(history[i].date) = FirstDate
    /\ \E k \in 1 .. Len(call.exported) :
           LET hist == call.exported[k].value.history
           IN  \E i \in 1 .. Len(hist) :
                   /\ hist[i].date = isoformat(FirstDate + 2)
                   /\ hist[i].status = "failed"
                   /\ call.exported[k].value.frequency = every_two_days
                   /\ \E j \in 1 .. Len(history) :
                          history[j].habit_id = call.exported[k].key
                   /\ StatusesOn(export_history(history, habits_yaml, None, None,
                                                today).exported,
                                 call.exported[k].key, hist[i].date) = {"failed"}

\* C25: in the exported timeline of an every_two_days habit the day after a
\* "completed" day is never "failed", and of two consecutive days the first
\* of which is on or after the earliest date of the log, not both are
\* "not completed".
C25_EveryTwoDaysTimeline ==
    Returned
        => \A k \in 1 .. Len(call.exported) :
               LET hist == call.exported[k].value.history
               IN  call.exported[k].value.frequency = every_two_days
                       => \A i, j \in 1 .. Len(hist) :
                              fromisoformat(hist[j].date) = fromisoformat(hist[i].date) + 1
                                  => /\ hist[i].status = "completed"
                                            => hist[j].status # "failed"
                                     /\ ( /\ history # <<>>
                                          /\ EarliestOrToday <= fromisoformat(hist[i].date)
                                          /\ hist[i].status = "not completed" )
                                            => hist[j].status # "not completed"

C25_Witness ==
    /\ Returned
    /\ \E k \in 1 .. Len(call.exported) :
           LET hist == call.exported[k].value.history
           IN  /\ call.exported[k].value.frequency = every_two_days
               /\ Len(hist) = 3
               /\ hist[1].status = "completed"
               /\ hist[2].status = "not completed"
               /\ hist[3].status = "failed"
               /\ fromisoformat(hist[1].date) = EarliestOrToday

\* ------------------------------------------------------ claims: weekly weeks
\* The days of the Monday-to-Sunday week of d on which h has no completion.
WeekDatesOpen(log, h, d) ==
    {e \in (d - weekday(d)) .. (d - weekday(d) + 6) : ~CompletedOn(log, h, e)}

\* C26: for a weekly rule all days of one Monday-to-Sunday week on which the
\* habit has no completion get the same status, whatever their place in the
\* week: each has the status of the first and of the last such day, so no
\* week has both "failed" and "not completed".
C26_WeekHasOneStatus ==
    (Evaluated /\ startswith(call.frequency, weekly_prefix) /\ call.status # "completed")
        => LET open == WeekDatesOpen(history, call.habit_id, call.target_date)
           IN  \A e \in open :
                   ((\A x \in open : e <= x) \/ (\A x \in open : x <= e))
                       => compute_habit_status(call.habit_id, call.frequency, e, history)
                              = call.status

C26_Witness ==
    /\ Evaluated
    /\ call.frequency = Weekly(<<"2">>)
    /\ call.status = "not completed"
    /\ weekday(call.target_date) = 0
    /\ CompletedOn(history, call.habit_id, call.target_date + 1)
    /\ CompletedOn(history, call.habit_id, call.target_date + 2)

\* ------------------------------------------------ claims: mark command log
\* The ids on the checklist lines of the edited file that carry a mark.
MarkedIds ==
    {call.edited[k][5] :
        k \in {j \in 1 .. Len(call.edited) :
                  /\ Len(call.edited[j]) >= 5
                  /\ call.edited[j][1] = "["
                  /\ call.edited[j][2] # " "}}

\* The ids of the checklist the run offered.
OfferedIds == {call.offered[k] : k \in 1 .. Len(call.offered)}

\* C27: after a successful mark run for date d the records dated d are those
\* of the ids on marked checklist lines, all completed; records dated d of
\* habits that were not offered are gone; records of other dates are kept.
C27_MarkReplacesDate ==
    (call.op = "mark" /\ call.exit_code = 0)
        => /\ \A i \in 1 .. Len(history) :
                  fromisoformat(history[i].date) = call.target_date
                      => history[i].habit_id \in MarkedIds /\ history[i].completed
           /\ \A id \in MarkedIds : CompletedOn(history, id, call.target_date)
           /\ \A i \in 1 .. Len(call.loaded) :
                  ( /\ fromisoformat(call.loaded[i].date) = call.target_date
                    /\ call.loaded[i].habit_id \notin OfferedIds )
                      => \A j \in 1 .. Len(history) :
                             ~( /\ history[j].habit_id = call.loaded[i].habit_id
                                /\ fromisoformat(history[j].date) = call.target_date )
           /\ OtherDates(history, call.target_date)
                  = OtherDates(call.loaded, call.target_date)

C27_Witness ==
    /\ call.op = "mark"
    /\ call.exit_code = 0
    /\ MarkedIds # {}
    /\ Len(habits_yaml.habits) = 2
    /\ \E i \in 1 .. Len(call.loaded) :
           /\ fromisoformat(call.loaded[i].date) = call.target_date
           /\ call.loaded[i].completed
           /\ call.loaded[i].habit_id \notin OfferedIds
           /\ ~CompletedOn(history, call.loaded[i].habit_id, call.target_date)

====
